---- MODULE Spec2Model ----
(***************************************************************************)
(* The "Get FunRec" tool of the FunRec DAIN service: one inbound tool call *)
(* issues one GET to the places provider and maps the returned features    *)
(* into a place list and a summary text.  Two near-duplicate handlers      *)
(* exist: the primary one (src/src/index.ts) and the example-node variant  *)
(* (src/unnamed/part_000).                                                 *)
(*                                                                         *)
(* Text is modelled as a sequence of tokens (a token is a literal chunk of *)
(* a template, an interpolated value, or the newline "\n"), so that        *)
(* concatenation, join, split into lines and containment are computed.     *)
(* An optional JSON field is <<>> when absent and <<v>> when it holds v.   *)
(* Coordinates are in tenths of a degree.                                  *)
(***************************************************************************)
EXTENDS Integers, Sequences, FiniteSets, TLC

VARIABLES pc, variant, query, response, result, gets, invocations, returned

vars == <<pc, variant, query, response, result, gets, invocations, returned>>

\* ---------------------------------------------------------------- bounds
MaxFeatures == 2
MaxInvocations == 2
MaxOver == 1

\* limit=10 of the provider URL
Limit == 10

\* ------------------------------------------------------ optional values
Undefined == <<>>
Some(v) == <<v>>
IsUndefined(o) == o = <<>>
Val(o) == o[1]

\* ------------------------------------------------------------------ text
NL == "\n"

RECURSIVE join(_, _)
join(strs, sep) ==
  IF strs = <<>> THEN <<>>
  ELSE IF Len(strs) = 1 THEN strs[1]
  ELSE strs[1] \o sep \o join(Tail(strs), sep)

\* the pieces of a text between its newlines (one piece more than newlines)
split(text) ==
  LET nl == {i \in 1..Len(text) : text[i] = NL}
      n == Cardinality(nl)
      pos(k) == IF k = 0 THEN 0
                ELSE IF k = n + 1 THEN Len(text) + 1
                ELSE CHOOSE i \in nl : Cardinality({j \in nl : j <= i}) = k
  IN  [k \in 1..(n + 1) |-> SubSeq(text, pos(k - 1) + 1, pos(k) - 1)]

afterFirstNewline(text) ==
  LET nl == {i \in 1..Len(text) : text[i] = NL}
  IN  IF nl = {} THEN <<>>
      ELSE SubSeq(text, (CHOOSE i \in nl : \A j \in nl : i <= j) + 1, Len(text))

Contains(text, sub) ==
  \E i \in 0..(Len(text) - Len(sub)) : SubSeq(text, i + 1, i + Len(sub)) = sub

\* ---------------------------------------------------------------- inputs
Variants == {"primary", "alternate"}

Queries ==
  { [locationName |-> <<"Carson">>, latitude |-> 338, longitude |-> -1182],
    [locationName |-> <<"Cerritos">>, latitude |-> 339, longitude |-> -1181] }

Names == {Undefined, Some(<<>>), Some(<<"Pier Park">>)}
Formatteds == {Undefined, Some(<<>>), Some(<<"1 Pier Dr">>)}
Categories == { << <<"leisure.park">> >>, << <<"tourism">>, <<"leisure">> >> }
Coordinates == { <<-1182, 338>>, <<-1181, 339>> }

PlaceProperties == [name : Names, categories : Categories, formatted : Formatteds]

Features == [properties : PlaceProperties, geometry : [coordinates : Coordinates]]

Repeat(f, n) == [i \in 1..n |-> f]

\* feature lists the provider may send: every short list, and lists at and
\* over the requested limit
FeatureLists ==
  UNION {[1..n -> Features] : n \in 0..MaxFeatures}
    \cup {Repeat(f, n) : f \in Features, n \in Limit..(Limit + MaxOver)}

\* a 2xx body either carries a features array or does not
Bodies == {Undefined} \cup {Some(fs) : fs \in FeatureLists}
Failures == {"status", "transport"}

NoResponse == [status |-> "pending", features |-> Undefined]
EmptyData == [k \in {} |-> <<>>]
NoResult == [branch |-> "none", text |-> <<>>, data |-> EmptyData]

\* ------------------------------------------------------ primary handler
\* mutant: the axes swapped
placeLatitudeSwapped(place) == place.geometry.coordinates[1]

\* coordinates is [longitude, latitude]; index 1 of the source is the second
placeLatitude(place) == place.geometry.coordinates[2]
placeLongitude(place) == place.geometry.coordinates[1]

\* mutant: the default only for a missing formatted address (?? for ||)
addressNullish(place) ==
  IF IsUndefined(place.properties.formatted)
  THEN <<"No address available">>
  ELSE Val(place.properties.formatted)

\* formatted || "No address available": the empty string is falsy
address(place) ==
  IF IsUndefined(place.properties.formatted) \/ Val(place.properties.formatted) = <<>>
  THEN <<"No address available">>
  ELSE Val(place.properties.formatted)

\* the callback of places.map: null (<<>>) for a feature without a name
mapPlace(place) ==
  IF IsUndefined(place.properties.name) THEN Undefined
  ELSE Some([name |-> Val(place.properties.name),
             category |-> join(place.properties.categories, <<", ">>),
             address |-> address(place),
             latitude |-> placeLatitude(place),
             longitude |-> placeLongitude(place)])

\* mutant: the retained places in reverse order
placeListReversed(ps) ==
  LET mapped == [i \in 1..Len(ps) |-> mapPlace(ps[i])]
      kept == SelectSeq(mapped, LAMBDA p : p # Undefined)
  IN  [i \in 1..Len(kept) |-> Val(kept[Len(kept) + 1 - i])]

\* places.map(...).filter((place) => place !== null)
placeList(places) ==
  LET mapped == [i \in 1..Len(places) |-> mapPlace(places[i])]
      kept == SelectSeq(mapped, LAMBDA p : p # Undefined)
  IN  [i \in 1..Len(kept) |-> Val(kept[i])]

\* mutant: the lines numbered from 0
placesTextZeroBased(list) ==
  join([index \in 1..Len(list) |->
          <<ToString(index - 1)>> \o <<". ">> \o list[index].name
            \o <<" - ">> \o list[index].address],
       <<NL>>)

placesText(list) ==
  join([index \in 1..Len(list) |->
          <<ToString(index)>> \o <<". ">> \o list[index].name
            \o <<" - ">> \o list[index].address],
       <<NL>>)

emptyResult(q) ==
  [branch |-> "empty",
   text |-> <<"No fun activities found near ">> \o q.locationName \o <<".">>,
   data |-> EmptyData]

successResult(q, places) ==
  [branch |-> "success",
   text |-> <<"Here are some fun activities in ">> \o q.locationName
              \o <<":", NL>> \o placesText(placeList(places)),
   data |-> [places |-> placeList(places)]]

catchResult(q) ==
  [branch |-> "catch",
   text |-> <<"Sorry, we couldn't fetch activities for ">> \o q.locationName
              \o <<". ", "Please try again later.">>,
   data |-> EmptyData]

\* mutant: the emptiness test made on the filtered list
tryBodyEmptyAfterFilter(q, body) ==
  IF IsUndefined(body) THEN catchResult(q)
  ELSE IF Len(placeList(Val(body))) = 0 THEN emptyResult(q)
  ELSE successResult(q, Val(body))

\* the try body after the await: reading .length of a missing features
\* array throws, which the catch turns into catchResult
tryBody(q, body) ==
  IF IsUndefined(body) THEN catchResult(q)
  ELSE IF Len(Val(body)) = 0 THEN emptyResult(q)
  ELSE successResult(q, Val(body))

\* ---------------------------------------------------- alternate handler
altMapPlace(q, place) ==
  [name |-> IF IsUndefined(place.properties.name) THEN <<"unknown">>
            ELSE Val(place.properties.name),
   category |-> join(place.properties.categories, <<", ">>),
   address |-> place.properties.formatted,
   latitude |-> place.geometry.coordinates[2],
   longitude |-> q.longitude]

\* mutant: nameless features dropped as in the primary handler
altPlaceListDropping(q, places) ==
  LET kept == SelectSeq(places, LAMBDA f : ~IsUndefined(f.properties.name))
  IN  [i \in 1..Len(kept) |-> altMapPlace(q, kept[i])]

altPlaceList(q, places) == [i \in 1..Len(places) |-> altMapPlace(q, places[i])]

thrown == [branch |-> "thrown", text |-> <<>>, data |-> EmptyData]

\* an array in a template literal: its elements' strings joined by ","
altBody(q, body) ==
  IF IsUndefined(body) THEN thrown
  ELSE [branch |-> "success",
        text |-> <<"Heres a list of FUN activities in ">> \o q.locationName
                   \o <<":", NL>>
                   \o join([i \in 1..Len(Val(body)) |-> <<"[object Object]">>], <<",">>),
        data |-> [places |-> altPlaceList(q, Val(body))]]

\* --------------------------------------------------------------- actions
Init ==
  /\ pc = "idle"
  /\ variant = "primary"
  /\ query \in Queries
  /\ response = NoResponse
  /\ result = NoResult
  /\ gets = 0
  /\ invocations = 0
  /\ returned = 0

\* the framework calls the handler, which runs up to its await of axios.get
Invoke(v, q) ==
  /\ pc \in {"idle", "done"}
  /\ invocations < MaxInvocations
  /\ pc' = "awaiting"
  /\ variant' = v
  /\ query' = q
  /\ response' = NoResponse
  /\ result' = NoResult
  /\ gets' = gets + 1
  /\ invocations' = invocations + 1
  /\ UNCHANGED returned

\* the GET resolves with a 2xx body and the handler runs to its return
Fulfilled(body) ==
  /\ pc' = "done"
  /\ response' = [status |-> "fulfilled", features |-> body]
  /\ result' = IF variant = "primary" THEN tryBody(query, body)
               ELSE altBody(query, body)
  /\ returned' = returned + 1
  /\ UNCHANGED <<variant, query, gets, invocations>>

ProviderFulfils ==
  /\ pc = "awaiting"
  /\ \E body \in Bodies : Fulfilled(body)

\* the GET rejects (non-2xx status or transport error)
\* mutant: a rejected GET is issued again
RejectedRetry(failure) ==
  /\ pc' = "awaiting"
  /\ gets' = gets + 1
  /\ response' = [status |-> failure, features |-> Undefined]
  /\ UNCHANGED <<variant, query, result, invocations, returned>>

Rejected(failure) ==
  /\ pc' = "done"
  /\ response' = [status |-> failure, features |-> Undefined]
  /\ result' = IF variant = "primary" THEN catchResult(query) ELSE thrown
  /\ returned' = returned + 1
  /\ UNCHANGED <<variant, query, gets, invocations>>

ProviderRejects ==
  /\ pc = "awaiting"
  /\ \E failure \in Failures : Rejected(failure)

Next ==
  \/ \E v \in Variants, q \in Queries : Invoke(v, q)
  \/ ProviderFulfils
  \/ ProviderRejects

Spec == Init /\ [][Next]_vars

\* ------------------------------------------------------------ properties
PrimaryDone == pc = "done" /\ variant = "primary"
AlternateDone == pc = "done" /\ variant = "alternate"
Ok == response.status = "fulfilled" /\ ~IsUndefined(response.features)
features == Val(response.features)
HasPlaces == "places" \in DOMAIN result.data
places == result.data.places

HasName(f) == ~IsUndefined(f.properties.name)
HasNonEmptyName(f) == HasName(f) /\ Val(f.properties.name) # <<>>
retained == SelectSeq(features, HasName)

\* the lines of a text; a text of no characters has no lines
linesOf(text) == IF text = <<>> THEN <<>> ELSE split(text)

RECURSIVE Embeds(_, _)
Embeds(ps, fs) ==
  IF ps = <<>> THEN TRUE
  ELSE IF fs = <<>> THEN FALSE
  ELSE IF /\ HasName(Head(fs))
          /\ Head(ps).name = Val(Head(fs).properties.name)
          /\ Head(ps).category = join(Head(fs).properties.categories, <<", ">>)
          /\ Head(ps).latitude = Head(fs).geometry.coordinates[2]
          /\ Head(ps).longitude = Head(fs).geometry.coordinates[1]
       THEN Embeds(Tail(ps), Tail(fs))
       ELSE Embeds(ps, Tail(fs))

\* C1: for a non-empty feature list the primary handler returns a places
\* list in which every name is defined and non-empty, and whose places are
\* exactly the features that carry a name, one place per named feature.
C1_EveryPlaceNamed ==
  (PrimaryDone /\ Ok /\ features # <<>>) =>
    /\ HasPlaces
    /\ LET named == SelectSeq(features, HasNonEmptyName)
       IN  /\ Len(places) = Len(named)
           /\ \A i \in 1..Len(places) :
                /\ places[i].name # <<>>
                /\ places[i].name = Val(named[i].properties.name)

\* C2: every retained feature's place has latitude = coordinates[1] and
\* longitude = coordinates[0] of the feature (second and first element),
\* never the query's own coordinates.
C2_CoordinateMapping ==
  (PrimaryDone /\ Ok /\ HasPlaces) =>
    /\ Len(places) = Len(retained)
    /\ \A i \in 1..Len(places) :
         /\ places[i].latitude = retained[i].geometry.coordinates[2]
         /\ places[i].longitude = retained[i].geometry.coordinates[1]

C2_Witness ==
  /\ PrimaryDone /\ Ok /\ HasPlaces
  /\ Len(features) > Len(places)
  /\ \E i \in 1..Len(places) :
       /\ places[i].latitude # query.latitude
       /\ places[i].longitude # query.longitude
       /\ places[i].latitude # places[i].longitude

\* C3: the address of every place is non-empty: the feature's formatted
\* address when it has a non-empty one, "No address available" when the
\* formatted address is missing or empty.
C3_AddressFallback ==
  (PrimaryDone /\ Ok /\ HasPlaces) =>
    /\ Len(places) = Len(retained)
    /\ \A i \in 1..Len(places) :
         LET formatted == retained[i].properties.formatted
         IN  /\ places[i].address # <<>>
             /\ places[i].address =
                  IF formatted \in {Undefined, Some(<<>>)}
                  THEN <<"No address available">>
                  ELSE Val(formatted)

C3_Witness ==
  /\ PrimaryDone /\ Ok /\ HasPlaces
  /\ \E i, j \in 1..Len(places) :
       /\ retained[i].properties.formatted = Some(<<>>)
       /\ places[i].address = <<"No address available">>
       /\ places[j].address = <<"1 Pier Dr">>

\* C4: an empty feature list gives a result with places = [] and a text
\* that contains the location name and says no activities were found.
C4_EmptyFeatureList ==
  (PrimaryDone /\ Ok /\ features = <<>>) =>
    /\ HasPlaces
    /\ places = <<>>
    /\ Contains(result.text, query.locationName)
    /\ Contains(result.text, <<"No fun activities found near ">>)

\* C5: when the provider call fails, or the response cannot be processed,
\* the handler does not throw: it returns places = [] and a text telling
\* the user to try again later.
C5_FailureResult ==
  (PrimaryDone /\ ~Ok) =>
    /\ result.branch # "thrown"
    /\ HasPlaces
    /\ places = <<>>
    /\ Contains(result.text, <<"Please try again later.">>)

C7_OrderedAtMostLimit ==
  (PrimaryDone /\ Ok /\ HasPlaces) =>
    /\ Embeds(places, features)
    /\ Len(places) <= Limit

\* C7 (amended): the returned places keep the order of the provider's
\* features and are at most as many as the features returned, hence at most
\* 10 whenever the provider returns at most 10; the handler cuts nothing off.
C7_OrderedAtMostReturned ==
  (PrimaryDone /\ Ok /\ HasPlaces) =>
    /\ Embeds(places, features)
    /\ Len(places) <= Len(features)
    /\ Len(features) <= Limit => Len(places) <= Limit
    /\ (\A i \in 1..Len(features) : HasName(features[i])) =>
         Len(places) = Len(features)

C7_Witness ==
  /\ PrimaryDone /\ Ok /\ HasPlaces
  /\ Len(features) > Limit
  /\ Len(places) = Len(features)

\* C8: every invocation issues exactly one GET and returns exactly one
\* result; no GET is issued after a failed or empty response.
C8_OneCallOneResult ==
  /\ gets = invocations
  /\ returned = invocations - (IF pc = "awaiting" THEN 1 ELSE 0)
  /\ pc = "awaiting" => result = NoResult
  /\ PrimaryDone => result.branch \in {"success", "empty", "catch"}

C8_Witness ==
  /\ PrimaryDone
  /\ invocations = MaxInvocations
  /\ returned = MaxInvocations
  /\ \/ response.status \in Failures
     \/ Ok /\ features = <<>>

\* C9: the alternate handler drops no feature: its places have the length
\* and order of the feature list, a feature without a name is emitted under
\* the name "unknown", and the primary handler's list is shorter by those.
C9_AlternateKeepsAll ==
  (AlternateDone /\ Ok) =>
    /\ HasPlaces
    /\ Len(places) = Len(features)
    /\ \A i \in 1..Len(places) :
         places[i].name = IF HasName(features[i])
                          THEN Val(features[i].properties.name)
                          ELSE <<"unknown">>
    /\ Len(placeList(features)) =
         Len(places) - Cardinality({i \in 1..Len(features) : ~HasName(features[i])})

C9_Witness ==
  /\ AlternateDone /\ Ok /\ HasPlaces
  /\ Len(features) >= 2
  /\ ~HasName(features[1])
  /\ HasName(features[2])
  /\ places[1].name = <<"unknown">>
  /\ Len(placeList(features)) < Len(places)

\* C10: the primary handler returns the "not found" result exactly when the
\* feature list is empty; a non-empty list of nameless features gives the
\* success header with no enumerated line and an empty places list.
C10_NotFoundIffEmpty ==
  (PrimaryDone /\ Ok) =>
    /\ Contains(result.text, <<"No fun activities found near ">>) <=> features = <<>>
    /\ (features # <<>> /\ \A i \in 1..Len(features) : ~HasName(features[i])) =>
         /\ result.text = <<"Here are some fun activities in ">>
                            \o query.locationName \o <<":", NL>>
         /\ HasPlaces
         /\ places = <<>>

C10_Witness ==
  /\ PrimaryDone /\ Ok
  /\ features # <<>>
  /\ \A i \in 1..Len(features) : ~HasName(features[i])
  /\ HasPlaces

====
